---- MODULE Spec2Model ----
(***************************************************************************)
(* AIterate: the generate / run / repair loop of cmd/new.go (runNew), the  *)
(* session store (storage.Storage), the workspace of executor.TestRunner   *)
(* and the response parsing of generator.CodeGenerator.                    *)
(*                                                                         *)
(* Text is a sequence of one-character strings.  The marker words of the   *)
(* repair format are written with one letter each: "I" is the word         *)
(* IMPLEMENTATION, "T" the word TESTS, "E" the word END.                   *)
(***************************************************************************)
EXTENDS Integers, Sequences, FiniteSets, TLC

\* ------------------------------------------------------------------ bounds
\* pieces appended to a repair response in SpecFix
MaxPieces == 5
\* AddIteration calls per session in SpecStore
MaxAdds == 3
\* the clock value from which SpecStore makes no further call
MaxClock == 8
MaxStripPieces == 7
MaxSlugPieces == 5

\* --------------------------------------------------------- program constants
maxIterations == 5

\* ------------------------------------------------------------- Go strings
Min(S) == CHOOSE x \in S : \A y \in S : x <= y

IsSpace(c) == c \in {" ", "\n", "\t", "\r"}

RECURSIVE TrimLeftSpace(_)
TrimLeftSpace(s) ==
    IF s = <<>> THEN s
    ELSE IF IsSpace(Head(s)) THEN TrimLeftSpace(Tail(s)) ELSE s

RECURSIVE TrimRightSpace(_)
TrimRightSpace(s) ==
    IF s = <<>> THEN s
    ELSE IF IsSpace(s[Len(s)]) THEN TrimRightSpace(SubSeq(s, 1, Len(s) - 1)) ELSE s

\* strings.TrimSpace
TrimSpace(s) == TrimRightSpace(TrimLeftSpace(s))

\* strings.HasPrefix
HasPrefix(s, p) == Len(s) >= Len(p) /\ SubSeq(s, 1, Len(p)) = p

\* strings.Index from position i on (1-based); 0 when sep does not occur
IndexFrom(s, sep, i) ==
    LET hits == {j \in i..(Len(s) - Len(sep) + 1) : SubSeq(s, j, j + Len(sep) - 1) = sep}
    IN  IF hits = {} THEN 0 ELSE Min(hits)

RECURSIVE SplitFrom(_, _, _)
SplitFrom(s, sep, i) ==
    LET j == IndexFrom(s, sep, i)
    IN  IF j = 0 THEN << SubSeq(s, i, Len(s)) >>
        ELSE << SubSeq(s, i, j - 1) >> \o SplitFrom(s, sep, j + Len(sep))

\* strings.Split with a non-empty separator: leftmost, non-overlapping
Split(s, sep) == SplitFrom(s, sep, 1)

RECURSIVE Join(_, _)
\* strings.Join
Join(elems, sep) ==
    IF elems = <<>> THEN <<>>
    ELSE IF Len(elems) = 1 THEN elems[1]
    ELSE elems[1] \o sep \o Join(Tail(elems), sep)

\* BQ is the backquote character (written "~": a TLA+ string cannot hold a backquote)
BQ == "~"
FENCE == <<BQ, BQ, BQ>>
NL == <<"\n">>
DASHES == <<"-", "-", "-">>

\* ------------------------------------------------ generator.stripCodeBlock
\* mutant: the closing marker is not looked for
CutClosingMarker_Keep(lines) == lines

\* the loop "for i := len(lines) - 1; i >= 0; i--": the lines before the last
\* line that is only a fence, or all the lines when there is none
CutClosingMarker(lines) ==
    LET closing == {i \in 1..Len(lines) : TrimSpace(lines[i]) = FENCE}
    IN  IF closing = {} THEN lines
        ELSE SubSeq(lines, 1, (CHOOSE i \in closing : \A k \in closing : k <= i) - 1)

stripCodeBlock(code) ==
    LET trimmed == TrimSpace(code)
    IN  IF HasPrefix(trimmed, FENCE)
        THEN LET lines == Split(trimmed, NL)
             IN  IF Len(lines) <= 1 THEN <<>>
                 ELSE TrimSpace(Join(CutClosingMarker(Tail(lines)), NL))
        ELSE trimmed

\* ------------------------------------------- ai.AIClient.GenerateCompletion
\* A completion call ends with an error (the request failed, or no choice was
\* returned) or with the text of the first choice.
Completion(ok, content) == [ok |-> ok, content |-> content]
ServiceError == Completion(FALSE, <<>>)

\* ------------------------------------------- generator.CodeGenerator.FixBoth
IMPLEMENTATION == <<"I">>
TESTS == <<"T">>
END == <<"E">>

FixError(msg) == [err |-> msg, TestCode |-> <<>>, Code |-> <<>>]

\* the body of "for i, part := range parts" for the part at (1-based) index i
SwitchPart(parts, i, acc) ==
    LET part == TrimSpace(parts[i])
    IN  IF part = IMPLEMENTATION
        THEN IF i + 1 <= Len(parts)
             THEN [acc EXCEPT !.implementation = stripCodeBlock(parts[i + 1])]
             ELSE acc
        ELSE IF part = TESTS
        THEN IF i + 1 <= Len(parts)
             THEN [acc EXCEPT !.tests = stripCodeBlock(parts[i + 1])]
             ELSE acc
        ELSE acc

RECURSIVE RangeParts(_, _, _)
RangeParts(parts, i, acc) ==
    IF i > Len(parts) THEN acc
    ELSE RangeParts(parts, i + 1, SwitchPart(parts, i, acc))

\* the parse of the response, after the completion call returned it
ParseFixResponse(response) ==
    LET parts == Split(response, DASHES)
    IN  IF Len(parts) < 5 THEN FixError("invalid response format from AI")
        ELSE LET r == RangeParts(parts, 1, [implementation |-> <<>>, tests |-> <<>>])
             IN  IF r.implementation = <<>> \/ r.tests = <<>>
                 THEN FixError("failed to extract implementation or test code")
                 ELSE [err |-> "", TestCode |-> r.tests, Code |-> r.implementation]

FixBoth(completion) ==
    IF ~completion.ok THEN FixError("failed to generate completion")
    ELSE ParseFixResponse(completion.content)

\* GenerateTests, GenerateImplementation: the completion, cleaned
GenerateSource(completion) ==
    IF ~completion.ok THEN [err |-> "failed to generate completion", text |-> <<>>]
    ELSE [err |-> "", text |-> stripCodeBlock(completion.content)]

\* ------------------------------------------------------- storage.Storage
SessionIDs == {"s1", "s2"}

\* The content of <baseDir>/<id>/session.json: absent, a JSON document, or what
\* an interrupted os.WriteFile leaves (truncated, it does not parse).
AbsentFile == [kind |-> "absent"]
TornFile == [kind |-> "torn"]

\* json.MarshalIndent of a Session: the struct's fields under their json tags
MarshalIteration(it) ==
    [number |-> it.Number, test_code |-> it.TestCode, code |-> it.Code,
     test_logs |-> it.TestLogs, success |-> it.Success, timestamp |-> it.Timestamp]

MarshalIndent(session) ==
    [kind |-> "json",
     data |-> [id |-> session.ID, description |-> session.Description,
               language |-> session.Language,
               iterations |-> [k \in 1..Len(session.Iterations) |->
                                  MarshalIteration(session.Iterations[k])],
               created_at |-> session.CreatedAt, updated_at |-> session.UpdatedAt]]

UnmarshalIteration(j) ==
    [Number |-> j.number, TestCode |-> j.test_code, Code |-> j.code,
     TestLogs |-> j.test_logs, Success |-> j.success, Timestamp |-> j.timestamp]

\* json.Unmarshal into a Session
Unmarshal(file) ==
    [ID |-> file.data.id, Description |-> file.data.description,
     Language |-> file.data.language,
     Iterations |-> [k \in 1..Len(file.data.iterations) |->
                        UnmarshalIteration(file.data.iterations[k])],
     CreatedAt |-> file.data.created_at, UpdatedAt |-> file.data.updated_at]

NoSession == [ID |-> "", Description |-> <<>>, Language |-> <<>>, Iterations |-> <<>>,
              CreatedAt |-> 0, UpdatedAt |-> 0]

\* What the file system does to one call: readOK, whether os.ReadFile of an
\* existing file succeeds; write, what os.WriteFile does: "ok", "fail" (the
\* file could not be opened: it is left as it was) or "torn" (the write stopped
\* after the truncation).
IOOutcomes == [readOK : BOOLEAN, write : {"ok", "fail", "torn"}]
IOFine == [readOK |-> TRUE, write |-> "ok"]

\* mutant: a record that cannot be read or parsed is taken for an empty session
GetSession_EmptyOnMissing(fs, sessionID, io) ==
    IF sessionID \notin DOMAIN fs \/ fs[sessionID].kind # "json" \/ ~io.readOK
    THEN [err |-> "", session |-> [NoSession EXCEPT !.ID = sessionID]]
    ELSE [err |-> "", session |-> Unmarshal(fs[sessionID])]

\* GetSession: os.ReadFile, then json.Unmarshal
GetSession(fs, sessionID, io) ==
    IF sessionID \notin DOMAIN fs \/ fs[sessionID].kind = "absent" \/ ~io.readOK
    THEN [err |-> "failed to read session", session |-> NoSession]
    ELSE IF fs[sessionID].kind = "torn"
    THEN [err |-> "failed to parse session data", session |-> NoSession]
    ELSE [err |-> "", session |-> Unmarshal(fs[sessionID])]

\* mutant: a failed write is not reported
saveSession_SwallowError(fs, session, io) ==
    IF io.write = "ok"
    THEN [err |-> "", files |-> [fs EXCEPT ![session.ID] = MarshalIndent(session)]]
    ELSE [err |-> "", files |-> fs]

saveSession(fs, session, io) ==
    IF io.write = "ok"
    THEN [err |-> "", files |-> [fs EXCEPT ![session.ID] = MarshalIndent(session)]]
    ELSE IF io.write = "torn"
    THEN [err |-> "failed to save session data",
          files |-> [fs EXCEPT ![session.ID] = TornFile]]
    ELSE [err |-> "failed to save session data", files |-> fs]

\* mutant: numbering from zero
NextNumber_ZeroBased(session) == Len(session.Iterations)

\* "Number: len(session.Iterations) + 1"
NextNumber(session) == Len(session.Iterations) + 1

\* mutant: the new iteration replaces the list
AddIteration_Replace(fs, sessionID, testCode, code, testLogs, success, now, io) ==
    LET got == GetSession(fs, sessionID, io)
    IN  IF got.err # "" THEN [err |-> got.err, files |-> fs, clock |-> now]
        ELSE LET iteration == [Number |-> NextNumber(got.session), TestCode |-> testCode,
                               Code |-> code, TestLogs |-> testLogs,
                               Success |-> success, Timestamp |-> now + 1]
                 session == [got.session EXCEPT
                                !.Iterations = <<iteration>>,
                                !.UpdatedAt = now + 2]
                 saved == saveSession(fs, session, io)
             IN  [err |-> saved.err, files |-> saved.files, clock |-> now + 2]

\* now is the clock before the call; each time.Now() advances it by one
AddIteration(fs, sessionID, testCode, code, testLogs, success, now, io) ==
    LET got == GetSession(fs, sessionID, io)
    IN  IF got.err # "" THEN [err |-> got.err, files |-> fs, clock |-> now]
        ELSE LET iteration == [Number |-> NextNumber(got.session), TestCode |-> testCode,
                               Code |-> code, TestLogs |-> testLogs,
                               Success |-> success, Timestamp |-> now + 1]
                 session == [got.session EXCEPT
                                !.Iterations = Append(got.session.Iterations, iteration),
                                !.UpdatedAt = now + 2]
                 saved == saveSession(fs, session, io)
             IN  [err |-> saved.err, files |-> saved.files, clock |-> now + 2]

\* id is the uuid.New() of the call; mkdirOK, whether os.MkdirAll of the
\* session directory succeeds
CreateSession(fs, id, description, language, now, mkdirOK, io) ==
    LET session == [ID |-> id, Description |-> description, Language |-> language,
                    Iterations |-> <<>>, CreatedAt |-> now + 1, UpdatedAt |-> now + 2]
    IN  IF ~mkdirOK
        THEN [err |-> "failed to create session directory", session |-> NoSession,
              files |-> fs, clock |-> now + 2]
        ELSE LET saved == saveSession(fs, session, io)
             IN  [err |-> saved.err,
                  session |-> IF saved.err = "" THEN session ELSE NoSession,
                  files |-> saved.files, clock |-> now + 2]

\* ---------------------------------------------------------- cmd/new.go
GO == <<"g", "o">>
PYTHON == <<"p", "y", "t", "h", "o", "n">>

\* mutant: a language is listed that the rest of the program does not know
supportedLanguages_OneMore == {GO, PYTHON, <<"r">>}

\* "var supportedLanguages = map[string]bool{"go": true, "python": true}"
supportedLanguages == {GO, PYTHON}

\* strings.ToLower, on the letters the inputs use
LowerChar(c) ==
    CASE c = "A" -> "a" [] c = "G" -> "g" [] c = "O" -> "o" [] OTHER -> c

ToLower(s) == [k \in 1..Len(s) |-> LowerChar(s[k])]

getFileExtension(language) ==
    IF language = PYTHON THEN "py" ELSE IF language = GO THEN "go" ELSE ""

\* fmt.Sprintf("main_test.%s", ext) and fmt.Sprintf("main.%s", ext): a file
\* name is <<base, extension>>
TestFileName(ext) == <<"main_test", ext>>
ImplFileName(ext) == <<"main", ext>>
GoModName == <<"go", "mod">>
RequirementsName == <<"requirements", "txt">>
GoModText == <<"m">>
RequirementsText == <<"r">>

\* A directory's files: a function from the names present to their contents
EmptyDir == [n \in {} |-> <<>>]

\* mutant: a file that is there is not overwritten
WriteFile_KeepExisting(dir, name, data) ==
    [n \in (DOMAIN dir) \cup {name} |-> IF n \in DOMAIN dir THEN dir[n] ELSE data]

\* os.WriteFile(name, data, 0644) in the directory
WriteFile(dir, name, data) ==
    [n \in (DOMAIN dir) \cup {name} |-> IF n = name THEN data ELSE dir[n]]

\* ------------------------------------------ executor.TestRunner
NoWorkspace == [exists |-> FALSE, files |-> EmptyDir]

\* The step of PrepareWorkspace that fails, per language ("none": no step)
PrepFailures(language) ==
    {"none", "mkdirTemp"} \cup
    (IF language = GO THEN {"goModInit", "writeGoMod", "goModTidy"}
     ELSE IF language = PYTHON THEN {"writeRequirements", "pipInstall"}
     ELSE {})

\* initPythonEnv, in the directory os.MkdirTemp made
initPythonEnv(fail) ==
    IF fail = "writeRequirements"
    THEN [err |-> "failed to create requirements.txt", files |-> EmptyDir]
    ELSE IF fail = "pipInstall"
    THEN [err |-> "failed to install Python requirements",
          files |-> WriteFile(EmptyDir, RequirementsName, RequirementsText)]
    ELSE [err |-> "", files |-> WriteFile(EmptyDir, RequirementsName, RequirementsText)]

\* PrepareWorkspace: the error, and the temporary directory as it is left on
\* disk (os.RemoveAll on the go branch's failures; none on the python branch's)
PrepareWorkspace(language, fail) ==
    IF fail = "mkdirTemp"
    THEN [err |-> "failed to create workspace", workspace |-> NoWorkspace]
    ELSE IF language = GO
    THEN IF fail \in {"goModInit", "writeGoMod", "goModTidy"}
         THEN [err |-> fail, workspace |-> NoWorkspace]
         ELSE [err |-> "",
               workspace |-> [exists |-> TRUE,
                              files |-> WriteFile(EmptyDir, GoModName, GoModText)]]
    ELSE IF language = PYTHON
    THEN LET env == initPythonEnv(fail)
         IN  [err |-> env.err, workspace |-> [exists |-> TRUE, files |-> env.files]]
    ELSE [err |-> "", workspace |-> [exists |-> TRUE, files |-> EmptyDir]]

\* What the test process does: it could not be started, or it ran, wrote to
\* its standard output and standard error, and exited
NoProc == [launched |-> FALSE, exit |-> 0 - 1, stdout |-> <<>>, stderr |-> <<>>]
ProcOutcomes ==
    { [launched |-> TRUE, exit |-> 0, stdout |-> <<"P">>, stderr |-> <<>>],
      [launched |-> TRUE, exit |-> 1, stdout |-> <<"F">>, stderr |-> <<"e">>],
      NoProc }

\* "output := stdout.String() + stderr.String()"
CombinedOutput(proc) == proc.stdout \o proc.stderr

\* mutant: a non-zero exit is returned as an error
RunTests_ExitIsError(language, proc) ==
    IF language \notin {GO, PYTHON}
    THEN [err |-> "unsupported language", Success |-> FALSE, Output |-> <<>>]
    ELSE IF ~proc.launched \/ proc.exit # 0
    THEN [err |-> "exit status 1", Success |-> FALSE, Output |-> <<>>]
    ELSE [err |-> "", Success |-> TRUE, Output |-> CombinedOutput(proc)]

\* RunTests: cmd.Run() returns an error when the process could not be started
\* and when it exited non-zero
RunTests(language, proc) ==
    IF language \notin {GO, PYTHON}
    THEN [err |-> "unsupported language", Success |-> FALSE, Output |-> <<>>]
    ELSE IF ~proc.launched \/ proc.exit # 0
    THEN [err |-> "", Success |-> FALSE, Output |-> CombinedOutput(proc)]
    ELSE [err |-> "", Success |-> TRUE, Output |-> CombinedOutput(proc)]

\* ---------------------------------------------- writeFiles, copyFinalFiles
WriteFailures(language) ==
    {"none", "writeTest", "writeImpl"} \cup
    (IF language = GO THEN {"noImports", "goGet", "goModTidy"} ELSE {})

\* TestRunner.UpdateDependencies: no import found (nil at once), go get fails,
\* go mod tidy fails, or nil
UpdateDependencies(fail) ==
    IF fail = "noImports" THEN ""
    ELSE IF fail = "goGet" THEN "failed to add dependency"
    ELSE IF fail = "goModTidy" THEN "failed to run go mod tidy"
    ELSE ""

\* mutant: the files are written and the dependencies left as they were
writeFiles_NoUpdate(files, testCode, code, language, fail) ==
    LET ext == getFileExtension(language)
        withTest == WriteFile(files, TestFileName(ext), testCode)
        withImpl == WriteFile(withTest, ImplFileName(ext), code)
    IN  IF ext = "" THEN [err |-> "unsupported language", files |-> files, deps |-> "none"]
        ELSE IF fail = "writeTest"
        THEN [err |-> "failed to write test file", files |-> files, deps |-> "none"]
        ELSE IF fail = "writeImpl"
        THEN [err |-> "failed to write implementation file", files |-> withTest,
              deps |-> "stale"]
        ELSE [err |-> "", files |-> withImpl, deps |-> "stale"]

\* writeFiles: the error, the directory's files afterwards, and what became of
\* the module's dependencies: "none" nothing, "stale" a source file was written
\* after they were last updated, "updated" UpdateDependencies returned nil
\* after the writes, "failed" it returned an error; fail names the step that
\* fails
writeFiles(files, testCode, code, language, fail) ==
    LET ext == getFileExtension(language)
        withTest == WriteFile(files, TestFileName(ext), testCode)
        withImpl == WriteFile(withTest, ImplFileName(ext), code)
    IN  IF ext = "" THEN [err |-> "unsupported language", files |-> files, deps |-> "none"]
        ELSE IF fail = "writeTest"
        THEN [err |-> "failed to write test file", files |-> files, deps |-> "none"]
        ELSE IF fail = "writeImpl"
        THEN [err |-> "failed to write implementation file", files |-> withTest,
              deps |-> "stale"]
        ELSE IF language = GO
        THEN IF UpdateDependencies(fail) # ""
             THEN [err |-> "failed to update dependencies", files |-> withImpl,
                   deps |-> "failed"]
             ELSE [err |-> "", files |-> withImpl, deps |-> "updated"]
        ELSE [err |-> "", files |-> withImpl, deps |-> "stale"]

\* mutant: the implementation file is listed twice
FinalFiles_ImplTwice(ext) == << ImplFileName(ext), ImplFileName(ext) >>

\* the files copyFinalFiles copies, in order
FinalFiles(ext) == << TestFileName(ext), ImplFileName(ext) >>

RECURSIVE CopyFrom(_, _, _, _, _, _)
\* "for _, file := range files", from the k-th file on; failAt is the failing
\* step: 2k-1 the read of the k-th file, 2k its write, 0 none; written, the
\* names written so far
CopyFrom(names, k, src, dst, written, failAt) ==
    IF k > Len(names) THEN [err |-> "", files |-> dst, written |-> written]
    ELSE IF names[k] \notin DOMAIN src \/ failAt = 2 * k - 1
    THEN [err |-> "failed to read", files |-> dst, written |-> written]
    ELSE IF failAt = 2 * k
    THEN [err |-> "failed to write", files |-> dst, written |-> written]
    ELSE CopyFrom(names, k + 1, src, WriteFile(dst, names[k], src[names[k]]),
                  written \cup {names[k]}, failAt)

copyFinalFiles(src, dst, language, failAt) ==
    LET ext == getFileExtension(language)
    IN  IF ext = "" THEN [err |-> "unsupported language", files |-> dst, written |-> {}]
        ELSE CopyFrom(FinalFiles(ext), 1, src, dst, {}, failAt)

\* ------------------------------ generator.CodeGenerator.GenerateDirectoryName
LowerLetters ==
    {"a", "b", "c", "d", "e", "f", "g", "h", "i", "j", "k", "l", "m",
     "n", "o", "p", "q", "r", "s", "t", "u", "v", "w", "x", "y", "z"}
Digits == {"0", "1", "2", "3", "4", "5", "6", "7", "8", "9"}
HYPHEN == <<"-">>

\* the strings.Map function: a character outside [a-z0-9-] becomes a hyphen
SlugRune(r) == IF r \in LowerLetters \cup Digits \cup {"-"} THEN r ELSE "-"

\* strings.ReplaceAll
ReplaceAll(s, old, new) == Join(Split(s, old), new)

RECURSIVE CollapseHyphens(_)
\* for strings.Contains(name, "--") { name = strings.ReplaceAll(name, "--", "-") }
CollapseHyphens(name) ==
    IF IndexFrom(name, HYPHEN \o HYPHEN, 1) # 0
    THEN CollapseHyphens(ReplaceAll(name, HYPHEN \o HYPHEN, HYPHEN))
    ELSE name

RECURSIVE TrimHyphens(_)
\* strings.Trim(name, "-")
TrimHyphens(name) ==
    IF name = <<>> THEN name
    ELSE IF Head(name) = "-" THEN TrimHyphens(Tail(name))
    ELSE IF name[Len(name)] = "-" THEN TrimHyphens(SubSeq(name, 1, Len(name) - 1))
    ELSE name

\* the clean-up of the generated name
CleanDirectoryName(text) ==
    LET lowered == ToLower(TrimSpace(stripCodeBlock(text)))
        mapped == [k \in 1..Len(lowered) |-> SlugRune(lowered[k])]
        name == TrimHyphens(CollapseHyphens(mapped))
    IN  IF Len(name) > 0 /\ name[1] \notin LowerLetters
        THEN <<"f", "n", "-">> \o name
        ELSE name

GenerateDirectoryName(completion) ==
    IF ~completion.ok THEN [err |-> "failed to generate completion", name |-> <<>>]
    ELSE [err |-> "", name |-> CleanDirectoryName(completion.content)]

\* "generated-function", the fallback name of runNew
FallbackDirName ==
    <<"g", "e", "n", "e", "r", "a", "t", "e", "d", "-",
      "f", "u", "n", "c", "t", "i", "o", "n">>

\* ================================================================== state
VARIABLES
    pc,              \* where runNew is
    description,     \* runNew's description
    language,        \* runNew's language
    session,         \* the *Session CreateSession returned
    workspace,       \* the temporary directory of PrepareWorkspace, on disk
    deferred,        \* whether "defer os.RemoveAll(workDir)" is registered
    outputDir,       \* the output directory, on disk
    testCode,        \* runNew's testCode
    code,            \* runNew's code
    i,               \* the loop counter of runNew
    result,          \* the TestResult of the latest RunTests
    success,         \* runNew's success
    lastTestOutput,  \* runNew's lastTestOutput
    err,             \* the error runNew returned ("" for nil)
    calls,           \* how often runNew has called each collaborator
    lastCall,        \* the latest call of runNew and the error it returned
    lastProc,        \* what the test process of the latest RunTests call did
    deps,            \* the workspace's dependencies against its source files
    fixArgs,         \* the arguments of the latest FixBoth call
    files,           \* the session files of the store, by session ID
    clock,           \* the time: each time.Now() advances it
    added,           \* per session, the arguments of the AddIteration calls that returned nil
    lastOp,          \* SpecStore: the latest call on the store, and the files before it
    response,        \* SpecFix: the text the completion service answered
    pieces,          \* SpecFix: the pieces that text was put together from
    fixResult,       \* SpecFix: what FixBoth returned for it
    cleaned,         \* SpecStrip: what stripCodeBlock returned for the text
    dirName,         \* SpecSlug: what GenerateDirectoryName returned for the text
    writer,          \* SpecConc: the process that is in saveSession, and where
    observed         \* SpecConc: what the latest GetSession of another process returned

ctlVars == <<pc, description, language, session, workspace, deferred, outputDir,
             testCode, code, i, result, success, lastTestOutput, err, calls,
             lastCall, lastProc, deps, fixArgs>>
storeVars == <<files, clock, added, lastOp>>
fixVars == <<response, pieces, fixResult, cleaned, dirName>>
concVars == <<writer, observed>>
vars == <<ctlVars, storeVars, fixVars, concVars>>

NoResult == [Success |-> FALSE, Output |-> <<>>]
NoOutputDir == [name |-> <<>>, exists |-> FALSE, files |-> EmptyDir, written |-> {}]
NoCalls == [Completion |-> 0, RunTests |-> 0, AddIteration |-> 0, FixBoth |-> 0,
            writeFiles |-> 0, copyFinalFiles |-> 0, PrepareWorkspace |-> 0]
NoCall == [name |-> "", err |-> ""]
CallReturned(name, e) == [name |-> name, err |-> e]
NotParsed == [err |-> "not called", TestCode |-> <<>>, Code |-> <<>>]
NotCleaned == [called |-> FALSE, text |-> <<>>]
NotNamed == [err |-> "not called", name |-> <<>>]

\* the arguments of an AddIteration call
AddArgs(t, c, logs, ok) == [testCode |-> t, code |-> c, testLogs |-> logs, success |-> ok]

\* A session an earlier run left in the store
EarlierSession ==
    [ID |-> "s1", Description |-> <<"d">>, Language |-> GO,
     Iterations |-> << [Number |-> 1, TestCode |-> <<"t">>, Code |-> <<"a">>,
                        TestLogs |-> <<"P">>, Success |-> TRUE, Timestamp |-> 0] >>,
     CreatedAt |-> 0, UpdatedAt |-> 0]

\* the arguments of codeGen.FixBoth(code, testCode, result.Output, language)
FixArgs(c, t, out, lang) == [code |-> c, testCode |-> t, testOutput |-> out, language |-> lang]
NoFixArgs == FixArgs(<<>>, <<>>, <<>>, <<>>)

CtlInit ==
    /\ pc = "start"
    /\ description = <<>>
    /\ language = <<>>
    /\ session = NoSession
    /\ workspace = NoWorkspace
    /\ deferred = FALSE
    /\ outputDir = NoOutputDir
    /\ testCode = <<>>
    /\ code = <<>>
    /\ i = 0
    /\ result = NoResult
    /\ success = FALSE
    /\ lastTestOutput = <<>>
    /\ err = ""
    /\ calls = NoCalls
    /\ lastCall = NoCall
    /\ lastProc = NoProc
    /\ deps = "none"
    /\ fixArgs = NoFixArgs

\* the store with the earlier session in it
EarlierFiles ==
    [id \in SessionIDs |-> IF id = "s1" THEN MarshalIndent(EarlierSession) ELSE AbsentFile]

\* a call on the store: its name, its session ID, what the file system did to
\* it, the error it returned, and the files before it and the clock before it
StoreCall(name, sid, io, e, fs, now) ==
    [name |-> name, sid |-> sid, io |-> io, err |-> e, before |-> fs, at |-> now]
NoOp == StoreCall("", "", IOFine, "", EarlierFiles, 0)

StoreInit ==
    /\ lastOp = NoOp
    /\ files = [id \in SessionIDs |->
                  IF id = "s1" THEN MarshalIndent(EarlierSession) ELSE AbsentFile]
    /\ clock = 0
    /\ added = [id \in SessionIDs |->
                  IF id = "s1" THEN << AddArgs(<<"t">>, <<"a">>, <<"P">>, TRUE) >> ELSE <<>>]

FixInit ==
    /\ response = <<>>
    /\ pieces = 0
    /\ fixResult = NotParsed
    /\ cleaned = NotCleaned
    /\ dirName = NotNamed

\* no process is in saveSession
Idle == [pc |-> "idle", sid |-> "", data |-> AbsentFile, before |-> AbsentFile]
NotObserved ==
    [called |-> FALSE, sid |-> "", result |-> [err |-> "", session |-> NoSession],
     before |-> AbsentFile, after |-> AbsentFile]

ConcInit ==
    /\ writer = Idle
    /\ observed = NotObserved

Init == CtlInit /\ StoreInit /\ FixInit /\ ConcInit

\* ================================================================= inputs
Descriptions == {<<>>, <<"d">>}
RawLanguages == {<<>>, <<"G", "o", " ">>, PYTHON, <<"r">>}

\* a repair response in the format FixBoth's prompt asks for
Repair(impl, tests) ==
    Completion(TRUE, DASHES \o IMPLEMENTATION \o DASHES \o NL \o impl \o NL \o
                     DASHES \o TESTS \o DASHES \o NL \o tests \o NL \o
                     DASHES \o END \o DASHES)

NameCompletions == {ServiceError, Completion(TRUE, <<"A", " ", "1">>)}
TestCompletions == {ServiceError, Completion(TRUE, <<"t">>), Completion(TRUE, FENCE)}
ImplCompletions ==
    {ServiceError, Completion(TRUE, FENCE \o GO \o NL \o <<"a">> \o NL \o FENCE)}
FixCompletions ==
    {ServiceError, Completion(TRUE, <<"x">>),
     Repair(<<"b">>, <<"u">>), Repair(<<"a">>, <<"t">>), Repair(<<"b">>, <<" ">>)}

\* ================================================================= runNew
\* "defer os.RemoveAll(workDir)": what a return leaves of the workspace ws
RunDeferred(ws) == IF deferred THEN NoWorkspace ELSE ws

\* "return e", with the workspace ws on disk at that point
Return(e, ws) ==
    /\ pc' = (IF e = "" THEN "done" ELSE "aborted")
    /\ err' = e
    /\ workspace' = RunDeferred(ws)

Called(name) == [calls EXCEPT ![name] = @ + 1]

\* mutant: the loop runs once more
LoopCond_OffByOne(n) == n <= maxIterations

\* "for i := 0; i < maxIterations; i++": the loop's condition
LoopCond(n) == n < maxIterations

\* mutant: no break on success
BreakOnSuccess_Never(res) == FALSE

\* mutant: the loop is left after a failed run
BreakOnSuccess_Inverted(res) == ~res.Success

\* after the iteration is stored: "if result.Success { success = true; break }"
BreakOnSuccess(res) == res.Success

\* mutant: only a failed completion call aborts
FixFailed_ServiceOnly(r) == r.err = "failed to generate completion"

\* mutant: a failed completion call is passed over
FixFailed_ParseOnly(r) ==
    r.err \in {"invalid response format from AI",
               "failed to extract implementation or test code"}

\* after FixBoth: "if err != nil { return ... }"
FixFailed(r) == r.err # ""

\* cmd.Execute(): the process's exit status for the error runNew returned
Execute(e) == IF e # "" THEN 1 ELSE 0

\* mutant: the name GenerateDirectoryName returned is used as it is
DirNameOrFallback_NoFallback(r) == r.name

\* "if err != nil { outputDirName = "generated-function" }"
DirNameOrFallback(r) == IF r.err # "" THEN FallbackDirName ELSE r.name

\* ai.NewAIClient(): OPENAI_API_KEY set or not
runNew_NewAIClient ==
    /\ pc = "start"
    /\ \E apiKey \in BOOLEAN :
          IF ~apiKey
          THEN /\ Return("failed to initialize AI client", workspace)
               /\ lastCall' = CallReturned("NewAIClient", "OPENAI_API_KEY is not set")
          ELSE /\ pc' = "storage"
               /\ lastCall' = CallReturned("NewAIClient", "")
               /\ UNCHANGED <<err, workspace>>
    /\ UNCHANGED <<description, language, session, deferred, outputDir, testCode, code,
                   i, result, success, lastTestOutput, calls>>
    /\ UNCHANGED <<storeVars, fixVars>>
    /\ UNCHANGED <<lastProc, deps>>
    /\ UNCHANGED fixArgs
    /\ UNCHANGED concVars

\* os.UserHomeDir() and storage.NewStorage()
runNew_NewStorage ==
    /\ pc = "storage"
    /\ \E ok \in BOOLEAN :
          IF ~ok
          THEN /\ Return("failed to initialize storage", workspace)
               /\ lastCall' = CallReturned("NewStorage", "failed to create storage directory")
          ELSE /\ pc' = "input"
               /\ lastCall' = CallReturned("NewStorage", "")
               /\ UNCHANGED <<err, workspace>>
    /\ UNCHANGED <<description, language, session, deferred, outputDir, testCode, code,
                   i, result, success, lastTestOutput, calls>>
    /\ UNCHANGED <<storeVars, fixVars>>
    /\ UNCHANGED <<lastProc, deps>>
    /\ UNCHANGED fixArgs
    /\ UNCHANGED concVars

\* the description, the language, and their validation
runNew_ReadInput ==
    /\ pc = "input"
    /\ \E d \in Descriptions, raw \in RawLanguages :
          LET lang == ToLower(TrimSpace(raw))
          IN  /\ description' = d
              /\ language' = (IF d = <<>> THEN <<>> ELSE lang)
              /\ IF d = <<>> THEN Return("description is required", workspace)
                 ELSE IF lang = <<>> THEN Return("language is required", workspace)
                 ELSE IF lang \notin supportedLanguages
                 THEN Return("unsupported language", workspace)
                 ELSE /\ pc' = "createSession"
                      /\ UNCHANGED <<err, workspace>>
    /\ UNCHANGED <<session, deferred, outputDir, testCode, code,
                   i, result, success, lastTestOutput, calls, lastCall>>
    /\ UNCHANGED <<storeVars, fixVars>>
    /\ UNCHANGED <<lastProc, deps>>
    /\ UNCHANGED fixArgs
    /\ UNCHANGED concVars

\* store.CreateSession(description, language)
runNew_CreateSession ==
    /\ pc = "createSession"
    /\ \E id \in {x \in SessionIDs : files[x].kind = "absent"},
          mkdirOK \in BOOLEAN, io \in IOOutcomes :
          LET r == CreateSession(files, id, description, language, clock, mkdirOK, io)
          IN  /\ files' = r.files
              /\ clock' = r.clock
              /\ session' = r.session
              /\ lastCall' = CallReturned("CreateSession", r.err)
              /\ IF r.err # ""
                 THEN Return("failed to create session", workspace)
                 ELSE /\ pc' = "prepare"
                      /\ UNCHANGED <<err, workspace>>
    /\ UNCHANGED <<description, language, deferred, outputDir, testCode, code,
                   i, result, success, lastTestOutput, calls, added, lastOp>>
    /\ UNCHANGED fixVars
    /\ UNCHANGED <<lastProc, deps>>
    /\ UNCHANGED fixArgs
    /\ UNCHANGED concVars

\* runner.PrepareWorkspace(language), then the defer
runNew_PrepareWorkspace ==
    /\ pc = "prepare"
    /\ \E fail \in PrepFailures(language) :
          LET r == PrepareWorkspace(language, fail)
          IN  /\ lastCall' = CallReturned("PrepareWorkspace", r.err)
              /\ IF r.err # ""
                 THEN /\ Return("failed to prepare workspace", r.workspace)
                      /\ UNCHANGED deferred
                 ELSE /\ workspace' = r.workspace
                      /\ deferred' = TRUE
                      /\ pc' = "dirname"
                      /\ UNCHANGED err
    /\ calls' = Called("PrepareWorkspace")
    /\ UNCHANGED <<description, language, session, outputDir, testCode, code,
                   i, result, success, lastTestOutput>>
    /\ UNCHANGED <<storeVars, fixVars>>
    /\ UNCHANGED <<lastProc, deps>>
    /\ UNCHANGED fixArgs
    /\ UNCHANGED concVars

\* codeGen.GenerateDirectoryName(description), with the fallback name
runNew_GenerateDirectoryName ==
    /\ pc = "dirname"
    /\ \E c \in NameCompletions :
          LET r == GenerateDirectoryName(c)
          IN  /\ outputDir' = [outputDir EXCEPT !.name = DirNameOrFallback(r)]
              /\ lastCall' = CallReturned("GenerateDirectoryName", r.err)
    /\ calls' = Called("Completion")
    /\ pc' = "mkdirOut"
    /\ UNCHANGED <<description, language, session, workspace, deferred, testCode, code,
                   i, result, success, lastTestOutput, err>>
    /\ UNCHANGED <<storeVars, fixVars>>
    /\ UNCHANGED <<lastProc, deps>>
    /\ UNCHANGED fixArgs
    /\ UNCHANGED concVars

\* what an earlier run may have left in a directory of the same name
StaleFiles(ext) ==
    WriteFile(WriteFile(EmptyDir, TestFileName(ext), <<"z">>), ImplFileName(ext), <<"z">>)

\* os.MkdirAll(outputDir, 0755): the directory may be there already
runNew_MkdirOutput ==
    /\ pc = "mkdirOut"
    /\ \E ok \in BOOLEAN, stale \in BOOLEAN :
          IF ~ok
          THEN /\ Return("failed to create output directory", workspace)
               /\ lastCall' = CallReturned("MkdirAll", "mkdir failed")
               /\ UNCHANGED outputDir
          ELSE /\ outputDir' = [outputDir EXCEPT
                                   !.exists = TRUE,
                                   !.files = IF stale
                                             THEN StaleFiles(getFileExtension(language))
                                             ELSE EmptyDir]
               /\ lastCall' = CallReturned("MkdirAll", "")
               /\ pc' = "genTests"
               /\ UNCHANGED <<err, workspace>>
    /\ UNCHANGED <<description, language, session, deferred, testCode, code,
                   i, result, success, lastTestOutput, calls>>
    /\ UNCHANGED <<storeVars, fixVars>>
    /\ UNCHANGED <<lastProc, deps>>
    /\ UNCHANGED fixArgs
    /\ UNCHANGED concVars

\* testGen.GenerateTests(description, language)
runNew_GenerateTests ==
    /\ pc = "genTests"
    /\ \E c \in TestCompletions :
          LET r == GenerateSource(c)
          IN  /\ lastCall' = CallReturned("GenerateTests", r.err)
              /\ IF r.err # ""
                 THEN /\ Return("failed to generate tests", workspace)
                      /\ UNCHANGED testCode
                 ELSE /\ testCode' = r.text
                      /\ pc' = "genImpl"
                      /\ UNCHANGED <<err, workspace>>
    /\ calls' = Called("Completion")
    /\ UNCHANGED <<description, language, session, deferred, outputDir, code,
                   i, result, success, lastTestOutput>>
    /\ UNCHANGED <<storeVars, fixVars>>
    /\ UNCHANGED <<lastProc, deps>>
    /\ UNCHANGED fixArgs
    /\ UNCHANGED concVars

\* codeGen.GenerateImplementation(description, testCode, language)
runNew_GenerateImplementation ==
    /\ pc = "genImpl"
    /\ \E c \in ImplCompletions :
          LET r == GenerateSource(c)
          IN  /\ lastCall' = CallReturned("GenerateImplementation", r.err)
              /\ IF r.err # ""
                 THEN /\ Return("failed to generate implementation", workspace)
                      /\ UNCHANGED code
                 ELSE /\ code' = r.text
                      /\ pc' = "write"
                      /\ UNCHANGED <<err, workspace>>
    /\ calls' = Called("Completion")
    /\ UNCHANGED <<description, language, session, deferred, outputDir, testCode,
                   i, result, success, lastTestOutput>>
    /\ UNCHANGED <<storeVars, fixVars>>
    /\ UNCHANGED <<lastProc, deps>>
    /\ UNCHANGED fixArgs
    /\ UNCHANGED concVars

\* writeFiles(workDir, testCode, code, language), before the loop
runNew_writeFiles ==
    /\ pc = "write"
    /\ \E fail \in WriteFailures(language) :
          LET r == writeFiles(workspace.files, testCode, code, language, fail)
              ws == [workspace EXCEPT !.files = r.files]
          IN  /\ lastCall' = CallReturned("writeFiles", r.err)
              /\ deps' = r.deps
              /\ IF r.err # ""
                 THEN Return("failed to write files", ws)
                 ELSE /\ workspace' = ws
                      /\ pc' = (IF LoopCond(0) THEN "run" ELSE "copy")
                      /\ UNCHANGED err
    /\ calls' = Called("writeFiles")
    /\ UNCHANGED <<description, language, session, deferred, outputDir, testCode, code,
                   i, result, success, lastTestOutput>>
    /\ UNCHANGED <<storeVars, fixVars>>
    /\ UNCHANGED lastProc
    /\ UNCHANGED fixArgs
    /\ UNCHANGED concVars

\* runner.RunTests(language); lastTestOutput = result.Output
runNew_RunTests ==
    /\ pc = "run"
    /\ \E proc \in ProcOutcomes :
          LET r == RunTests(language, proc)
          IN  /\ lastCall' = CallReturned("RunTests", r.err)
              /\ lastProc' = proc
              /\ IF r.err # ""
                 THEN /\ Return("failed to run tests", workspace)
                      /\ UNCHANGED <<result, lastTestOutput>>
                 ELSE /\ result' = [Success |-> r.Success, Output |-> r.Output]
                      /\ lastTestOutput' = r.Output
                      /\ pc' = "record"
                      /\ UNCHANGED <<err, workspace>>
    /\ calls' = Called("RunTests")
    /\ UNCHANGED <<description, language, session, deferred, outputDir, testCode, code,
                   i, success>>
    /\ UNCHANGED <<storeVars, fixVars>>
    /\ UNCHANGED deps
    /\ UNCHANGED fixArgs
    /\ UNCHANGED concVars

\* store.AddIteration(session.ID, testCode, code, result.Output, result.Success),
\* then the break on success
runNew_AddIteration ==
    /\ pc = "record"
    /\ \E io \in IOOutcomes :
          LET r == AddIteration(files, session.ID, testCode, code, result.Output,
                                result.Success, clock, io)
          IN  /\ files' = r.files
              /\ clock' = r.clock
              /\ lastCall' = CallReturned("AddIteration", r.err)
              /\ added' = IF r.err = ""
                          THEN [added EXCEPT ![session.ID] =
                                   Append(@, AddArgs(testCode, code, result.Output,
                                                     result.Success))]
                          ELSE added
              /\ IF r.err # ""
                 THEN /\ Return("failed to store iteration", workspace)
                      /\ UNCHANGED success
                 ELSE IF BreakOnSuccess(result)
                 THEN /\ success' = TRUE
                      /\ pc' = "copy"
                      /\ UNCHANGED <<err, workspace>>
                 ELSE /\ pc' = "fix"
                      /\ UNCHANGED <<err, workspace, success>>
    /\ calls' = Called("AddIteration")
    /\ UNCHANGED <<description, language, session, deferred, outputDir, testCode, code,
                   i, result, lastTestOutput, lastOp>>
    /\ UNCHANGED fixVars
    /\ UNCHANGED <<lastProc, deps>>
    /\ UNCHANGED fixArgs
    /\ UNCHANGED concVars

\* codeGen.FixBoth(code, testCode, result.Output, language); code and testCode
\* are replaced by its result
runNew_FixBoth ==
    /\ pc = "fix"
    /\ \E c \in FixCompletions :
          LET r == FixBoth(c)
          IN  /\ lastCall' = CallReturned("FixBoth", r.err)
              /\ fixArgs' = FixArgs(code, testCode, result.Output, language)
              /\ IF FixFailed(r)
                 THEN /\ Return("failed to fix code", workspace)
                      /\ UNCHANGED <<code, testCode>>
                 ELSE /\ code' = r.Code
                      /\ testCode' = r.TestCode
                      /\ pc' = "rewrite"
                      /\ UNCHANGED <<err, workspace>>
    /\ calls' = [calls EXCEPT !.FixBoth = @ + 1, !.Completion = @ + 1]
    /\ UNCHANGED <<description, language, session, deferred, outputDir,
                   i, result, success, lastTestOutput>>
    /\ UNCHANGED <<storeVars, fixVars>>
    /\ UNCHANGED <<lastProc, deps>>
    /\ UNCHANGED concVars

\* writeFiles(workDir, testCode, code, language) at the end of the loop body,
\* then i++ and the loop's condition
runNew_writeFixedFiles ==
    /\ pc = "rewrite"
    /\ \E fail \in WriteFailures(language) :
          LET r == writeFiles(workspace.files, testCode, code, language, fail)
              ws == [workspace EXCEPT !.files = r.files]
          IN  /\ lastCall' = CallReturned("writeFiles", r.err)
              /\ deps' = r.deps
              /\ IF r.err # ""
                 THEN /\ Return("failed to write files", ws)
                      /\ UNCHANGED i
                 ELSE /\ workspace' = ws
                      /\ i' = i + 1
                      /\ pc' = (IF LoopCond(i + 1) THEN "run" ELSE "copy")
                      /\ UNCHANGED err
    /\ calls' = Called("writeFiles")
    /\ UNCHANGED <<description, language, session, deferred, outputDir, testCode, code,
                   result, success, lastTestOutput>>
    /\ UNCHANGED <<storeVars, fixVars>>
    /\ UNCHANGED lastProc
    /\ UNCHANGED fixArgs
    /\ UNCHANGED concVars

\* copyFinalFiles(workDir, outputDir, language), then "return nil"
runNew_copyFinalFiles ==
    /\ pc = "copy"
    /\ \E failAt \in 0..4 :
          LET r == copyFinalFiles(workspace.files, outputDir.files, language, failAt)
          IN  /\ outputDir' = [outputDir EXCEPT !.files = r.files, !.written = r.written]
              /\ lastCall' = CallReturned("copyFinalFiles", r.err)
              /\ Return(IF r.err # "" THEN "failed to copy final files" ELSE "", workspace)
    /\ calls' = Called("copyFinalFiles")
    /\ UNCHANGED <<description, language, session, deferred, testCode, code,
                   i, result, success, lastTestOutput>>
    /\ UNCHANGED <<storeVars, fixVars>>
    /\ UNCHANGED <<lastProc, deps>>
    /\ UNCHANGED fixArgs
    /\ UNCHANGED concVars

runNew ==
    \/ runNew_NewAIClient
    \/ runNew_NewStorage
    \/ runNew_ReadInput
    \/ runNew_CreateSession
    \/ runNew_PrepareWorkspace
    \/ runNew_GenerateDirectoryName
    \/ runNew_MkdirOutput
    \/ runNew_GenerateTests
    \/ runNew_GenerateImplementation
    \/ runNew_writeFiles
    \/ runNew_RunTests
    \/ runNew_AddIteration
    \/ runNew_FixBoth
    \/ runNew_writeFixedFiles
    \/ runNew_copyFinalFiles

Next == runNew

Spec == Init /\ [][Next]_vars

\* runNew is one sequential function whose every call returns: it always takes
\* its next step
SpecLive == Spec /\ WF_vars(Next)

\* ============================================================== SpecStore
\* The store used directly: any caller, any session ID, any arguments.

SourcePairs == { <<(<<"t">>), (<<"a">>)>>, <<(<<"u">>), (<<"b">>)>> }

Store_CreateSession ==
    /\ clock < MaxClock
    /\ \E id \in {x \in SessionIDs : files[x].kind = "absent"},
          mkdirOK \in BOOLEAN, io \in IOOutcomes :
          LET r == CreateSession(files, id, <<"d">>, PYTHON, clock, mkdirOK, io)
          IN  /\ files' = r.files
              /\ clock' = r.clock
              /\ lastOp' = StoreCall("CreateSession", id, io, r.err, files, clock)
    /\ UNCHANGED <<added, ctlVars, fixVars>>
    /\ UNCHANGED concVars

Store_AddIteration ==
    /\ clock < MaxClock
    /\ \E sid \in SessionIDs, src \in SourcePairs, ok \in BOOLEAN, io \in IOOutcomes :
          LET logs == IF ok THEN <<"P">> ELSE <<"F">>
              r == AddIteration(files, sid, src[1], src[2], logs, ok, clock, io)
          IN  /\ Len(added[sid]) < MaxAdds
              /\ lastOp' = StoreCall("AddIteration", sid, io, r.err, files, clock)
              /\ files' = r.files
              /\ clock' = r.clock
              /\ added' = IF r.err = ""
                          THEN [added EXCEPT ![sid] = Append(@, AddArgs(src[1], src[2], logs, ok))]
                          ELSE added
    /\ UNCHANGED <<ctlVars, fixVars>>
    /\ UNCHANGED concVars

NextStore == Store_CreateSession \/ Store_AddIteration

SpecStore == Init /\ [][NextStore]_vars

\* ================================================================ SpecFix
\* FixBoth on every response put together from at most MaxPieces pieces.
MarkerI == DASHES \o IMPLEMENTATION \o DASHES
MarkerT == DASHES \o TESTS \o DASHES
MarkerE == DASHES \o END \o DASHES
Pieces == {MarkerI, MarkerT, MarkerE, DASHES, <<"a">>, <<"b">>, NL, FENCE, <<" ">>}

Fix_Append ==
    /\ pieces < MaxPieces
    /\ \E p \in Pieces : response' = response \o p
    /\ pieces' = pieces + 1
    /\ fixResult' = NotParsed
    /\ UNCHANGED <<cleaned, dirName, ctlVars, storeVars>>
    /\ UNCHANGED concVars

Fix_FixBoth ==
    /\ fixResult = NotParsed
    /\ \E ok \in BOOLEAN : fixResult' = FixBoth(Completion(ok, response))
    /\ UNCHANGED <<response, pieces, cleaned, dirName, ctlVars, storeVars>>
    /\ UNCHANGED concVars

NextFix == Fix_Append \/ Fix_FixBoth

SpecFix == Init /\ [][NextFix]_vars

\* =============================================================== SpecConc
\* One process in AddIteration or CreateSession, step by step through
\* saveSession's os.WriteFile (the file is opened with O_TRUNC, then written),
\* and another process that calls GetSession at any moment. The writing
\* process may die between the two steps.

\* AddIteration up to os.WriteFile: the record is read and the new one built
Conc_AddIteration ==
    /\ writer.pc = "idle"
    /\ clock < MaxClock
    /\ \E sid \in SessionIDs, src \in SourcePairs, ok \in BOOLEAN :
          LET logs == IF ok THEN <<"P">> ELSE <<"F">>
              r == AddIteration(files, sid, src[1], src[2], logs, ok, clock, IOFine)
          IN  /\ r.err = ""
              /\ writer' = [pc |-> "open", sid |-> sid, data |-> r.files[sid],
                            before |-> files[sid]]
              /\ clock' = r.clock
    /\ UNCHANGED <<files, added, lastOp, observed, ctlVars, fixVars>>

\* CreateSession up to os.WriteFile
Conc_CreateSession ==
    /\ writer.pc = "idle"
    /\ clock < MaxClock
    /\ \E id \in {x \in SessionIDs : files[x].kind = "absent"} :
          LET r == CreateSession(files, id, <<"d">>, PYTHON, clock, TRUE, IOFine)
          IN  /\ writer' = [pc |-> "open", sid |-> id, data |-> r.files[id],
                            before |-> files[id]]
              /\ clock' = r.clock
    /\ UNCHANGED <<files, added, lastOp, observed, ctlVars, fixVars>>

\* os.WriteFile, first step: the file is created or truncated to no bytes
Conc_OpenTruncate ==
    /\ writer.pc = "open"
    /\ files' = [files EXCEPT ![writer.sid] = TornFile]
    /\ writer' = [writer EXCEPT !.pc = "write"]
    /\ UNCHANGED <<clock, added, lastOp, observed, ctlVars, fixVars>>

\* os.WriteFile, second step: the data is written and the file closed
Conc_Write ==
    /\ writer.pc = "write"
    /\ files' = [files EXCEPT ![writer.sid] = writer.data]
    /\ writer' = Idle
    /\ UNCHANGED <<clock, added, lastOp, observed, ctlVars, fixVars>>

\* the writing process dies after the truncation
Conc_Crash ==
    /\ writer.pc = "write"
    /\ writer' = [writer EXCEPT !.pc = "crashed"]
    /\ UNCHANGED <<files, clock, added, lastOp, observed, ctlVars, fixVars>>

\* GetSession by another process; before and after are the session's complete
\* records around the write in progress, if there is one
Conc_GetSession ==
    /\ \E sid \in SessionIDs :
          LET writing == writer.pc \in {"open", "write", "crashed"} /\ writer.sid = sid
          IN  observed' = [called |-> TRUE, sid |-> sid,
                           result |-> GetSession(files, sid, IOFine),
                           before |-> IF writing THEN writer.before ELSE files[sid],
                           after |-> IF writing THEN writer.data ELSE files[sid]]
    /\ UNCHANGED <<files, clock, added, lastOp, writer, ctlVars, fixVars>>

NextConc ==
    \/ Conc_AddIteration
    \/ Conc_CreateSession
    \/ Conc_OpenTruncate
    \/ Conc_Write
    \/ Conc_Crash
    \/ Conc_GetSession

SpecConc == Init /\ [][NextConc]_vars

\* ============================================================== SpecStrip
\* stripCodeBlock on every text put together from at most MaxStripPieces pieces.
StripPieces == {FENCE, GO, NL, <<"a">>, <<" ">>}

Strip_Append ==
    /\ pieces < MaxStripPieces
    /\ \E p \in StripPieces : response' = response \o p
    /\ pieces' = pieces + 1
    /\ cleaned' = NotCleaned
    /\ UNCHANGED <<fixResult, dirName, ctlVars, storeVars>>
    /\ UNCHANGED concVars

Strip_stripCodeBlock ==
    /\ ~cleaned.called
    /\ cleaned' = [called |-> TRUE, text |-> stripCodeBlock(response)]
    /\ UNCHANGED <<response, pieces, fixResult, dirName, ctlVars, storeVars>>
    /\ UNCHANGED concVars

NextStrip == Strip_Append \/ Strip_stripCodeBlock

SpecStrip == Init /\ [][NextStrip]_vars

\* =============================================================== SpecSlug
\* GenerateDirectoryName on every completion text put together from at most
\* MaxSlugPieces characters, and on a failed completion call.
SlugPieces == {<<"A">>, <<"g">>, <<"1">>, <<"-">>, <<" ">>, <<"!">>}

Slug_Append ==
    /\ pieces < MaxSlugPieces
    /\ \E p \in SlugPieces : response' = response \o p
    /\ pieces' = pieces + 1
    /\ dirName' = NotNamed
    /\ UNCHANGED <<fixResult, cleaned, ctlVars, storeVars>>
    /\ UNCHANGED concVars

Slug_GenerateDirectoryName ==
    /\ dirName = NotNamed
    /\ \E ok \in BOOLEAN : dirName' = GenerateDirectoryName(Completion(ok, response))
    /\ UNCHANGED <<response, pieces, fixResult, cleaned, ctlVars, storeVars>>
    /\ UNCHANGED concVars

NextSlug == Slug_Append \/ Slug_GenerateDirectoryName

SpecSlug == Init /\ [][NextSlug]_vars

\* ================================================================= claims
\* the iterations of runNew's session as the store holds them
Recorded ==
    IF session.ID \in SessionIDs /\ files[session.ID].kind = "json"
    THEN Unmarshal(files[session.ID]).Iterations
    ELSE <<>>

Ended == pc \in {"done", "aborted"}
Ext == getFileExtension(language)

\* C1: runNew calls RunTests at most maxIterations (5) times.
C1_AtMostFiveRuns == calls.RunTests <= maxIterations
C1_Witness == calls.RunTests = maxIterations /\ pc = "done"

\* C2: once a RunTests call has returned Success = true, no step of runNew is
\* a FixBoth, a writeFiles or a RunTests call.
C2_NoStepAfterSuccess ==
    [][result.Success =>
          /\ calls'.FixBoth = calls.FixBoth
          /\ calls'.writeFiles = calls.writeFiles
          /\ calls'.RunTests = calls.RunTests]_vars
C2_Witness == result.Success /\ pc = "done" /\ calls.RunTests = 2

\* C3: a session's stored iteration list holds one element per AddIteration
\* call that returned nil, in call order, and the k-th has Number = k.
C3_NumbersAreOneToN ==
    \A sid \in SessionIDs :
        files[sid].kind = "json" =>
            LET its == Unmarshal(files[sid]).Iterations
            IN  /\ Len(its) = Len(added[sid])
                /\ \A k \in 1..Len(its) :
                      /\ its[k].Number = k
                      /\ its[k].TestCode = added[sid][k].testCode
                      /\ its[k].Code = added[sid][k].code
                      /\ its[k].TestLogs = added[sid][k].testLogs
                      /\ its[k].Success = added[sid][k].success
C3_Witness ==
    /\ files["s2"].kind = "json"
    /\ Len(added["s2"]) = 3
    /\ Len(Unmarshal(files["s2"]).Iterations) = 3

\* C4 as stated: at every point the recorded iterations are as many as the
\* completed test runs, or one fewer while the record is being written.
C4_RecordedEqualsRuns ==
    \/ Len(Recorded) = calls.RunTests
    \/ pc = "record" /\ Len(Recorded) = calls.RunTests - 1

\* C4 amended: every completed test run is followed by one AddIteration call;
\* the recorded iterations are as many as the completed runs (one fewer while
\* the record is being written) unless an AddIteration call returned an error:
\* runNew then has returned, with one completed test run more than AddIteration
\* calls that returned nil.
C4_RecordedUnlessStoreFails ==
    /\ \/ calls.AddIteration = calls.RunTests
       \/ pc = "record" /\ calls.AddIteration = calls.RunTests - 1
    /\ err # "failed to store iteration" => C4_RecordedEqualsRuns
    /\ err = "failed to store iteration" =>
          /\ pc = "aborted"
          /\ Len(added[session.ID]) = calls.RunTests - 1
C4_Witness == pc = "fix" /\ calls.RunTests = 3 /\ Len(Recorded) = 3

\* C5: when the run has ended, no temporary workspace directory is left.
C5_WorkspaceRemoved == Ended => ~workspace.exists

\* C6: a run whose 5 test runs all failed (5 iterations recorded, none a
\* success) ends without an error and with the final files copied, whatever
\* the completion service answers to the repair request after the 5th run.
C6_ExhaustedNotFatal ==
    ( /\ Ended
      /\ Len(Recorded) = maxIterations
      /\ \A k \in 1..Len(Recorded) : ~Recorded[k].Success
      /\ err \notin {"failed to write files", "failed to copy final files"} )
    => ( /\ pc = "done"
         /\ err = ""
         /\ outputDir.written = {TestFileName(Ext), ImplFileName(Ext)} )

\* C7: after a run that ended by exhaustion the output directory holds the
\* test source and the implementation source recorded in iteration 5.
C7_ExhaustedCopiesFifth ==
    (pc = "done" /\ ~success) =>
        /\ Len(Recorded) = maxIterations
        /\ outputDir.files[TestFileName(Ext)] = Recorded[maxIterations].TestCode
        /\ outputDir.files[ImplFileName(Ext)] = Recorded[maxIterations].Code

\* C8: after a run that ended because test run k succeeded, exactly the two
\* canonical files were written to the output directory, and they hold the
\* test source and the implementation source recorded in iteration k, the
\* last one recorded.
C8_PassCopiesLast ==
    (pc = "done" /\ success) =>
        LET k == Len(Recorded)
        IN  /\ k = calls.RunTests
            /\ k >= 1
            /\ Recorded[k].Success
            /\ outputDir.written = {TestFileName(Ext), ImplFileName(Ext)}
            /\ outputDir.files[TestFileName(Ext)] = Recorded[k].TestCode
            /\ outputDir.files[ImplFileName(Ext)] = Recorded[k].Code
C8_Witness ==
    /\ pc = "done"
    /\ success
    /\ calls.RunTests = 2
    /\ ~Recorded[1].Success
    /\ Recorded[2].Code # Recorded[1].Code

\* C9: when FixBoth could not parse the repair response, runNew has returned
\* an error and takes no further step: no RunTests, FixBoth or writeFiles.
ParseErrors ==
    {"invalid response format from AI", "failed to extract implementation or test code"}
C9_ParseFailureAborts ==
    (lastCall.name = "FixBoth" /\ lastCall.err \in ParseErrors) =>
        /\ pc = "aborted"
        /\ err = "failed to fix code"
        /\ ~ENABLED runNew
C9_Witness ==
    /\ lastCall = CallReturned("FixBoth", "failed to extract implementation or test code")
    /\ calls.RunTests = 2
    /\ pc = "aborted"

\* C10: the sections of a response, read off its markers: the text after the
\* marker up to the next marker, or to the end of the response
MarkerStarts(text, m) ==
    {p \in 1..(Len(text) - Len(m) + 1) : SubSeq(text, p, p + Len(m) - 1) = m}
AnyMarkerStarts(text) ==
    MarkerStarts(text, MarkerI) \cup MarkerStarts(text, MarkerT) \cup MarkerStarts(text, MarkerE)
SectionAfter(text, m) ==
    IF MarkerStarts(text, m) = {} THEN <<>>
    ELSE LET from == Min(MarkerStarts(text, m)) + Len(m)
             later == {q \in AnyMarkerStarts(text) : q >= from}
         IN  SubSeq(text, from, IF later = {} THEN Len(text) ELSE Min(later) - 1)

\* C10: for a response with each marker at most once, FixBoth returns an error
\* when the implementation or the tests section is missing or empty, and
\* otherwise returns both sections, each the whole section text after fence
\* cleaning.
C10_FixBothSections ==
    ( /\ fixResult # NotParsed
      /\ fixResult.err # "failed to generate completion"
      /\ Cardinality(MarkerStarts(response, MarkerI)) <= 1
      /\ Cardinality(MarkerStarts(response, MarkerT)) <= 1 )
    => LET impl == stripCodeBlock(SectionAfter(response, MarkerI))
           tests == stripCodeBlock(SectionAfter(response, MarkerT))
       IN  IF impl = <<>> \/ tests = <<>>
           THEN fixResult.err # ""
           ELSE /\ fixResult.err = ""
                /\ fixResult.Code = impl
                /\ fixResult.TestCode = tests

\* C11: runNew never writes an empty test source or an empty implementation
\* source into the workspace and never calls RunTests on one: no source file of
\* the workspace is empty, and no test run has been made on an empty source.
WorkspaceSources ==
    {TestFileName(Ext), ImplFileName(Ext)} \cap DOMAIN workspace.files
C11_NoEmptySource ==
    /\ \A name \in WorkspaceSources : workspace.files[name] # <<>>
    /\ pc = "record" => (testCode # <<>> /\ code # <<>>)

\* C12: when the test process of a RunTests call could not be launched,
\* RunTests has returned an error and runNew has returned with it: the outcome
\* is not a TestResult, is not recorded and is followed by no repair call.
C12_LaunchFailureAborts ==
    (calls.RunTests > 0 /\ ~lastProc.launched) =>
        /\ lastCall.name = "RunTests"
        /\ lastCall.err # ""
        /\ pc = "aborted"
        /\ err = "failed to run tests"

\* C13: for a supported language RunTests returns Success = true exactly when
\* the test process exited with status zero; a process that exited non-zero
\* gives Success = false, the standard output followed by the standard error,
\* and a nil error, and once that result is recorded runNew is at the repair
\* call and has not returned.
C13_ExitStatusDecides ==
    /\ (lastCall.name = "RunTests" /\ lastProc.launched) =>
          /\ lastCall.err = ""
          /\ pc = "record"
          /\ err = ""
          /\ result.Success = (lastProc.exit = 0)
          /\ result.Output = lastProc.stdout \o lastProc.stderr
    /\ (lastCall.name = "RunTests" /\ lastCall.err = "") =>
          (result.Success <=> (lastProc.launched /\ lastProc.exit = 0))
    /\ (lastCall = CallReturned("AddIteration", "") /\ lastProc.launched
                                                   /\ lastProc.exit # 0) =>
          /\ pc = "fix"
          /\ err = ""
          /\ ~Recorded[Len(Recorded)].Success
          /\ Recorded[Len(Recorded)].TestLogs = lastProc.stdout \o lastProc.stderr
C13_Witness ==
    /\ pc = "fix"
    /\ calls.RunTests = 2
    /\ lastProc.launched
    /\ lastProc.exit = 1
    /\ result = [Success |-> FALSE, Output |-> <<"F", "e">>]

\* C14: when the credential is missing, or the language entered is none of go
\* and python, runNew has returned an error and has made no PrepareWorkspace
\* call and no completion call; no workspace directory and no session record
\* of this run exists.
MissingCredential == lastCall = CallReturned("NewAIClient", "OPENAI_API_KEY is not set")
BadLanguage == description # <<>> /\ language \notin {GO, PYTHON}
C14_ConfigErrorsFirst ==
    (MissingCredential \/ BadLanguage) =>
        /\ pc = "aborted"
        /\ err \in {"failed to initialize AI client", "language is required",
                    "unsupported language"}
        /\ calls.PrepareWorkspace = 0
        /\ ~workspace.exists
        /\ calls.Completion = 0
        /\ session = NoSession
        /\ files = [id \in SessionIDs |->
                       IF id = "s1" THEN MarshalIndent(EarlierSession) ELSE AbsentFile]
C14_Witness ==
    /\ pc = "aborted"
    /\ language = <<"r">>
    /\ err = "unsupported language"
    /\ lastCall = CallReturned("NewStorage", "")

\* C15: for the go language, whenever runNew is about to call RunTests, and
\* whenever it has called it, UpdateDependencies has returned nil after the
\* latest write of the workspace's source files; and when UpdateDependencies
\* has failed, runNew has returned the error and takes no further step.
C15_DepsBeforeRun ==
    /\ (language = GO /\ pc = "run") =>
          (deps = "updated" /\ lastCall = CallReturned("writeFiles", ""))
    /\ (language = GO /\ calls.RunTests > 0 /\ pc \in {"record", "fix", "rewrite"}) =>
          deps = "updated"
    /\ deps = "failed" =>
          /\ pc = "aborted"
          /\ err = "failed to write files"
          /\ lastCall = CallReturned("writeFiles", "failed to update dependencies")
          /\ ~ENABLED runNew
C15_Witness ==
    /\ language = GO
    /\ pc = "record"
    /\ calls.RunTests = 2
    /\ calls.writeFiles = 2
    /\ deps = "updated"

\* C16: every repair transition is followed by a test run that is recorded
\* before the run ends: when runNew has returned nil, after i repair
\* transitions (FixBoth returned a pair and writeFiles wrote it), RunTests has
\* been called i + 1 times and i + 1 iterations are recorded, the first pair's
\* and one for each repaired pair.
C16_RepairIsRun ==
    pc = "done" => (calls.RunTests = i + 1 /\ Len(Recorded) = i + 1)

\* C17: a text read off its fences. A text holds a single fenced block when
\* the fence occurs in it exactly twice and a newline ends the opening fence's
\* line before the closing fence; the block's body is the text between that
\* newline and the closing fence.
FenceStarts(text) == MarkerStarts(text, FENCE)
AllSpace(text) == \A k \in 1..Len(text) : IsSpace(text[k])
NewlinesIn(text, from, to) == {k \in from..to : k \in 1..Len(text) /\ text[k] = "\n"}
OpeningFence(text) == Min(FenceStarts(text))
ClosingFence(text) == CHOOSE q \in FenceStarts(text) : \A k \in FenceStarts(text) : k <= q
OpeningLineEnd(text) ==
    Min(NewlinesIn(text, OpeningFence(text) + 3, ClosingFence(text) - 1))
HoldsOneBlock(text) ==
    /\ Cardinality(FenceStarts(text)) = 2
    /\ NewlinesIn(text, OpeningFence(text) + 3, ClosingFence(text) - 1) # {}
BlockBody(text) == SubSeq(text, OpeningLineEnd(text) + 1, ClosingFence(text) - 1)

\* the opening fence is the first text that is not white space
FenceLeads(text) == AllSpace(SubSeq(text, 1, OpeningFence(text) - 1))

\* the closing fence stands alone on its line
ClosingFenceAlone(text) ==
    LET q == ClosingFence(text)
        before == NewlinesIn(text, 1, q - 1)
        after == NewlinesIn(text, q + 3, Len(text))
        lineStart == (CHOOSE n \in before : \A k \in before : k <= n) + 1
        lineEnd == IF after = {} THEN Len(text) ELSE Min(after) - 1
    IN  /\ AllSpace(SubSeq(text, lineStart, q - 1))
        /\ AllSpace(SubSeq(text, q + 3, lineEnd))

\* only an opening fence, with or without a tag, and no body
OnlyOpeningFence(text) ==
    /\ FenceStarts(TrimSpace(text)) = {1}
    /\ NewlinesIn(TrimSpace(text), 1, Len(text)) = {}

StripOpeningOnly == OnlyOpeningFence(response) => cleaned.text = <<>>
StripNoFence == FenceStarts(response) = {} => cleaned.text = TrimSpace(response)

C18_SlugWellFormed ==
    dirName.err = "" =>
        LET name == dirName.name
        IN  /\ \A k \in 1..Len(name) : name[k] \in LowerLetters \cup Digits \cup {"-"}
            /\ \A k \in 1..(Len(name) - 1) : ~(name[k] = "-" /\ name[k + 1] = "-")
            /\ Len(name) > 0
            /\ name[1] \in LowerLetters
            /\ name[Len(name)] # "-"

\* C19: when GenerateDirectoryName has returned an error, runNew has not
\* returned: the output directory's name is "generated-function" and the next
\* step is the creation of the output directory; a run under the fallback name
\* ends only as a run under a generated name does, with nil or with the error
\* of a later step.
LaterErrors ==
    {"failed to create output directory", "failed to generate tests",
     "failed to generate implementation", "failed to write files",
     "failed to run tests", "failed to store iteration", "failed to fix code",
     "failed to copy final files"}
C19_SlugFailureNotFatal ==
    /\ (lastCall.name = "GenerateDirectoryName" /\ lastCall.err # "") =>
          /\ pc = "mkdirOut"
          /\ err = ""
          /\ outputDir.name = FallbackDirName
          /\ ENABLED runNew_MkdirOutput
    /\ (pc \notin {"start", "storage", "input", "createSession", "prepare", "dirname"}
          /\ calls.Completion > 0) =>
          /\ outputDir.name \in {FallbackDirName, <<"a", "-", "1">>}
          /\ Ended => err \in LaterErrors \cup {""}
C19_Witness ==
    /\ outputDir.name = FallbackDirName
    /\ pc = "done"
    /\ success
    /\ calls.RunTests = 2
    /\ calls.FixBoth = 1

\* C20: when the completion call of GenerateTests, GenerateImplementation or
\* FixBoth has failed, runNew has returned an error, which Execute turns into
\* exit status 1, and takes no further step: no completion call and no test
\* run follows.
ServiceFailed ==
    /\ lastCall.name \in {"GenerateTests", "GenerateImplementation", "FixBoth"}
    /\ lastCall.err = "failed to generate completion"
C20_ServiceFailureFatal ==
    ServiceFailed =>
        /\ pc = "aborted"
        /\ err \in {"failed to generate tests", "failed to generate implementation",
                    "failed to fix code"}
        /\ Execute(err) = 1
        /\ ~ENABLED runNew
C20_Witness ==
    /\ lastCall = CallReturned("FixBoth", "failed to generate completion")
    /\ calls.RunTests = 3
    /\ calls.Completion = 6
    /\ pc = "aborted"

\* C21: an AddIteration call on a session ID without a record, or whose record
\* could not be read or does not parse, has returned an error and has left the
\* store as it was: no record created, none modified.
CannotGet(op) ==
    \/ op.before[op.sid].kind = "absent"
    \/ op.before[op.sid].kind = "torn"
    \/ ~op.io.readOK
C21_FailedAddChangesNothing ==
    (lastOp.name = "AddIteration" /\ CannotGet(lastOp)) =>
        /\ lastOp.err \in {"failed to read session", "failed to parse session data"}
        /\ files = lastOp.before
        /\ clock = lastOp.at
C21_Witness ==
    /\ lastOp.name = "AddIteration"
    /\ lastOp.sid = "s2"
    /\ lastOp.before["s2"].kind = "absent"
    /\ Len(Unmarshal(lastOp.before["s1"]).Iterations) = 2
    /\ lastOp.err = "failed to read session"
    /\ files["s2"].kind = "absent"

\* C23: after an AddIteration call that returned nil, the session's record
\* holds the iterations it held before, unchanged and in the same order, and
\* one more; its id, description, language and creation time are as before;
\* the records of the other sessions are as before.
C23_AppendOnly ==
    (lastOp.name = "AddIteration" /\ lastOp.err = "") =>
        LET old == Unmarshal(lastOp.before[lastOp.sid])
            new == Unmarshal(files[lastOp.sid])
            n == Len(old.Iterations)
        IN  /\ \A id \in SessionIDs \ {lastOp.sid} : files[id] = lastOp.before[id]
            /\ new.ID = old.ID
            /\ new.Description = old.Description
            /\ new.Language = old.Language
            /\ new.CreatedAt = old.CreatedAt
            /\ Len(new.Iterations) = n + 1
            /\ SubSeq(new.Iterations, 1, n) = old.Iterations
            /\ new.Iterations[n + 1].Timestamp > lastOp.at
            /\ new.UpdatedAt > old.UpdatedAt
C23_Witness ==
    /\ lastOp.name = "AddIteration"
    /\ lastOp.err = ""
    /\ lastOp.sid = "s2"
    /\ Len(Unmarshal(lastOp.before["s2"]).Iterations) = 2
    /\ Len(Unmarshal(files["s2"]).Iterations) = 3
    /\ files["s1"] = MarshalIndent(EarlierSession)

\* C22: what GetSession returns for a record that is nothing but file
ReadOf(file, sid) == GetSession([id \in SessionIDs |-> file], sid, IOFine)

\* C22: a GetSession call of another process returns what it would return for
\* the session's complete record before the write in progress, or for the
\* complete record after it; so too when the writing process has died.
C22_ReaderSeesWholeRecord ==
    observed.called =>
        observed.result \in {ReadOf(observed.before, observed.sid),
                             ReadOf(observed.after, observed.sid)}

\* C24: the three outcomes of a run
Passed == pc = "done" /\ success /\ result.Success
Exhausted ==
    /\ pc = "done"
    /\ ~success
    /\ calls.RunTests = maxIterations
    /\ Len(Recorded) = maxIterations
    /\ \A k \in 1..Len(Recorded) : ~Recorded[k].Success
Aborted == pc = "aborted" /\ err # ""

\* C24: every execution of runNew, each of whose calls returns, ends, and it
\* ends passed, exhausted or aborted with an error; the loop makes no more
\* than maxIterations passes.
C24_Terminates ==
    /\ <>Ended
    /\ [](Ended => (Passed \/ Exhausted \/ Aborted))
    /\ [](i <= maxIterations)
C24_Witness == Exhausted /\ i = maxIterations /\ calls.FixBoth = maxIterations

\* C25: at every RunTests call the workspace's test file and implementation
\* file hold testCode and code; the iteration recorded for the run holds that
\* pair, the run's output and its verdict; the FixBoth call after a failed run
\* is given that pair and that output.
LastRecorded == Recorded[Len(Recorded)]
WorkspaceHoldsPair ==
    /\ workspace.files[TestFileName(Ext)] = testCode
    /\ workspace.files[ImplFileName(Ext)] = code
C26_SuccessOnlyLast ==
    /\ \A k \in 1..(Len(Recorded) - 1) : ~Recorded[k].Success
    /\ Cardinality({k \in 1..Len(Recorded) : Recorded[k].Success}) <= 1
    /\ \A k \in 1..Len(Recorded) :
          Recorded[k].Success => (k = Len(Recorded) /\ pc \in {"copy", "done", "aborted"})
C26_Witness ==
    /\ pc = "done"
    /\ Len(Recorded) = 3
    /\ Recorded[3].Success
    /\ ~Recorded[1].Success
    /\ ~Recorded[2].Success

====
